---------------------------- MODULE Spec2Model ----------------------------
(***************************************************************************)
(* A model of pygridder's Gridder (src/src/pygridder/girdder.py).          *)
(*                                                                         *)
(* Coordinates are exact numbers held as integers that count half units,   *)
(* so that the "/ 2." of the centering transform is exact on the grids     *)
(* drawn here (grid coordinates are even).  Arrays are sequences of rows;  *)
(* cell indices are 0-based (row, col) pairs as numpy returns them.        *)
(* The grid arrays are float arrays, as the tests build them.              *)
(***************************************************************************)
EXTENDS Integers, Sequences, FiniteSets, TLC

VARIABLES
    args,      \* the constructor's arguments [tx, ty, dx, centered]
    built,     \* "ok", or the exception __init__ raised
    tx,        \* self.tx
    ty,        \* self.ty
    dx,        \* self.dx
    tpoints,   \* self.tpoints, the point set self.tree indexes
    call,      \* the public call in progress, [op |-> "idle"] between calls
    queries,   \* the _kdtree_query invocations of the call: [points, inds]
    result,    \* what the call gave: [status, value]
    raised     \* history: some earlier call of this Gridder raised

vars == <<args, built, tx, ty, dx, tpoints, call, queries, result, raised>>

self == <<tx, ty, dx, tpoints>>

----------------------------------------------------------------------------
(* Bounds of the model *)

MaxRows == 3
MaxCols == 4
MaxPts == 2
MaxVerts == 3
MaxPolys == 1

\* dx = np.inf, the default snap distance
Inf == -1

\* gaps between neighbouring axis coordinates (half units, even)
GapSet == {-4, 4, 8}

\* the finite snap distances tried (half units)
DxSet == {2, 5}

----------------------------------------------------------------------------
(* numpy helpers *)

Abs(v) == IF v < 0 THEN -v ELSE v

Max(a, b) == IF a >= b THEN a ELSE b

Min(a, b) == IF a <= b THEN a ELSE b

\* v / 2. on floats; exact here because every v halved is even
Half(v) == v \div 2

NRows(a) == Len(a)

NCols(a) == Len(a[1])

\* a.shape
Shape(a) == <<NRows(a), NCols(a)>>

\* a.ravel(): row-major flattening
Ravel(a) == [k \in 1..(NRows(a) * NCols(a)) |->
               a[((k - 1) \div NCols(a)) + 1][((k - 1) % NCols(a)) + 1]]

\* np.unravel_index(k, shape) for one flat index k (0-based)
Unravel(k, shape) == <<k \div shape[2], k % shape[2]>>

\* CenterX without the shift of the last column
CenterXNoLast(a) ==
    LET C == NCols(a) IN
    [i \in 1..NRows(a) |-> [j \in 1..C |->
        IF j < C THEN a[i][j] + Half(a[i][j + 1] - a[i][j])
                 ELSE a[i][C]]]

\* x[:, :-1] = tx[:, :-1] + (tx[:, 1:] - tx[:, :-1]) / 2.
\* x[:, -1] += (tx[:, -1] - tx[:, -2]) / 2.
CenterX(a) ==
    LET C == NCols(a) IN
    [i \in 1..NRows(a) |-> [j \in 1..C |->
        IF j < C THEN a[i][j] + Half(a[i][j + 1] - a[i][j])
                 ELSE a[i][C] + Half(a[i][C] - a[i][C - 1])]]

\* y[:-1, :] = ty[:-1, :] + (ty[1:, :] - ty[:-1, :]) / 2.
\* y[-1, :] += (ty[-1, :] - ty[-2, :]) / 2.
CenterY(a) ==
    LET R == NRows(a) IN
    [i \in 1..R |-> [j \in 1..NCols(a) |->
        IF i < R THEN a[i][j] + Half(a[i + 1][j] - a[i][j])
                 ELSE a[R][j] + Half(a[R][j] - a[R - 1][j])]]

\* does zip(xs, ys, strict=True) raise ValueError
ZipStrictFails(xs, ys) == Len(xs) # Len(ys)

\* list(zip(xs, ys, strict=True)) when it does not raise
Zip(xs, ys) == [k \in 1..Len(xs) |-> <<xs[k], ys[k]>>]

----------------------------------------------------------------------------
(* Gridder.__init__ *)

\* the stored x grid
StoredTx(a) == IF a.centered THEN a.tx ELSE CenterX(a.tx)

\* the stored y grid
StoredTy(a) == IF a.centered THEN a.ty ELSE CenterY(a.ty)

\* zip(self.tx.ravel(), self.ty.ravel(), strict=True) raises on unequal sizes
CtorFails(a) == ZipStrictFails(Ravel(StoredTx(a)), Ravel(StoredTy(a)))

\* the state __init__ leaves
Constructed(a) ==
    /\ args = a
    /\ call = [op |-> "idle"]
    /\ queries = <<>>
    /\ result = [status |-> "none"]
    /\ raised = FALSE
    /\ IF CtorFails(a)
       THEN /\ built = "ValueError"
            /\ tx = <<>>
            /\ ty = <<>>
            /\ dx = 0
            /\ tpoints = <<>>
       ELSE /\ built = "ok"
            /\ tx = StoredTx(a)
            /\ ty = StoredTy(a)
            /\ dx = a.dx
            /\ tpoints = Zip(Ravel(StoredTx(a)), Ravel(StoredTy(a)))

----------------------------------------------------------------------------
(* Input grids *)

\* axes of n coordinates starting at 0 with gaps from GapSet
Axes(n) ==
    { [k \in 1..n |-> IF k = 1 THEN 0 ELSE
         LET RECURSIVE Sum(_)
             Sum(m) == IF m = 0 THEN 0 ELSE g[m] + Sum(m - 1)
         IN Sum(k - 1)] : g \in [1..(n - 1) -> GapSet] }

\* x of np.meshgrid(xaxis, yaxis) with r rows
GridX(xaxis, r) == [i \in 1..r |-> xaxis]

\* y of np.meshgrid(xaxis, yaxis) with c columns
GridY(yaxis, c) == [i \in 1..Len(yaxis) |-> [j \in 1..c |-> yaxis[i]]]

Dims == {<<r, c>> : r \in 2..MaxRows, c \in 2..MaxCols}

XGrids == UNION { {GridX(ax, d[1]) : ax \in Axes(d[2])} : d \in Dims }

YGrids == UNION { {GridY(ax, d[2]) : ax \in Axes(d[1])} : d \in Dims }

DxValues == DxSet \cup {Inf}


----------------------------------------------------------------------------
(* Gridder._kdtree_query *)

\* squared Euclidean distance of two points
Dist2(p, q) == (p[1] - q[1]) * (p[1] - q[1]) + (p[2] - q[2]) * (p[2] - q[2])

\* InReach with the bound itself in reach
InReachClosed(d2, bound) == bound = Inf \/ d2 <= bound * bound

\* tree.query(..., distance_upper_bound=bound) takes a neighbour at squared
\* distance d2 only when it lies below the bound
InReach(d2, bound) == (bound = Inf) \/ (d2 < bound * bound)

\* squared distance from p to the nearest point of pts
MinDist2(p, pts) ==
    LET ds == {Dist2(p, pts[k]) : k \in 1..Len(pts)}
    IN CHOOSE d \in ds : \A e \in ds : d <= e

\* the indices tree.query(p, k=1) can give: a nearest point in reach (which
\* one, among equidistant points, is the tree's choice), else len(pts)
QueryOne(p, pts, bound) ==
    LET m == MinDist2(p, pts) IN
    IF InReach(m, bound)
    THEN {k - 1 : k \in {j \in 1..Len(pts) : Dist2(p, pts[j]) = m}}
    ELSE {Len(pts)}

RECURSIVE Product(_)
\* the sequences that take their k-th element from the k-th set
Product(sets) ==
    IF sets = <<>> THEN {<<>>}
    ELSE {<<h>> \o t : h \in Head(sets), t \in Product(Tail(sets))}

\* the inds tree.query can give for a batch of points
QueryAll(points, pts, bound) ==
    Product([k \in 1..Len(points) |-> QueryOne(points[k], pts, bound)])

\* points = list(zip(x, y, strict=True)), or zip([x], [y]) for scalars
KdPoints(x, y, scalar) == IF scalar THEN <<<<x, y>>>> ELSE Zip(x, y)

\* the exception _kdtree_query raises, "ok" when none: zip's ValueError on
\* unequal lengths, tree.query's ValueError on an array of no points
KdStatus(x, y, scalar) ==
    IF scalar THEN "ok"
    ELSE IF ZipStrictFails(x, y) THEN "ValueError"
    ELSE IF Len(x) = 0 THEN "ValueError"
    ELSE "ok"

\* the runs _kdtree_query(x, y) can make on this Gridder
KdQuery(x, y, scalar) ==
    IF KdStatus(x, y, scalar) # "ok"
    THEN {[status |-> KdStatus(x, y, scalar)]}
    ELSE {[status |-> "ok", points |-> KdPoints(x, y, scalar), inds |-> i] :
             i \in QueryAll(KdPoints(x, y, scalar), tpoints, dx)}

\* Keep that deletes only the indices above len(self.tpoints)
KeepMissing(inds) == SelectSeq(inds, LAMBDA k : k <= Len(tpoints))

\* np.delete(inds, np.where(inds >= len(self.tpoints))[0])
Keep(inds) == SelectSeq(inds, LAMBDA k : k < Len(tpoints))

\* np.unravel_index(inds, self.tx.shape), as (row, col) pairs
KdReturn(inds) ==
    [k \in 1..Len(Keep(inds)) |-> Unravel(Keep(inds)[k], Shape(tx))]

----------------------------------------------------------------------------
(* Inputs of the calls *)

\* query points (half units): next to the cells (0,0), (1,2), (0,2), at
\* distance 5 from the corner-grid centre (2,2), far away, next to (2,1)
PA == <<1, 1>>

PB == <<9, 5>>

PC == <<9, -2>>

PE == <<-3, 2>>

PF == <<40, 40>>

PG == <<5, 9>>

QPts == {PA, PB, PC, PE, PF, PG}

LPts == {PA, PB, PG, PF}

VPts == {PA, PB, PC}

\* a point next to the centre of every cell of the largest grid
CellPts == {<<4 * j + 1, 4 * i + 1>> : i \in 0..(MaxRows - 1), j \in 0..(MaxCols - 1)}

\* sequences over S of length at most n
SeqsUpTo(S, n) == UNION {[1..k -> S] : k \in 0..n}

Xs(pts) == [k \in 1..Len(pts) |-> pts[k][1]]

Ys(pts) == [k \in 1..Len(pts) |-> pts[k][2]]

\* seq without its last t elements
Trim(seq, t) == SubSeq(seq, 1, Len(seq) - Min(t, Len(seq)))

\* start and end batches of grid_lines: batches over LPts, and every single
\* line between two points of CellPts
LineInputs ==
    {<<s, e>> : s \in SeqsUpTo(LPts, MaxPts), e \in SeqsUpTo(LPts, MaxPts)}
    \cup {<<<<p>>, <<q>>>> : p \in CellPts, q \in CellPts}

\* polygon lists of grid_polygons, each with the number of trailing y
\* arrays left out of ys (one only for a list of one polygon)
PolygonInputs ==
    {<<polys, 0>> : polys \in SeqsUpTo(SeqsUpTo(VPts, MaxVerts), MaxPolys)}
    \cup {<<<<poly>>, 1>> : poly \in SeqsUpTo(VPts, MaxVerts)}

Idle == [op |-> "idle"]

----------------------------------------------------------------------------
(* Gridder.make_empty_grid *)

\* np.zeros(shape)
Zeros(shape) == [i \in 1..shape[1] |-> [j \in 1..shape[2] |-> 0]]

\* make_empty_grid that zeroes and hands out self.tx
MakeEmptyGridInPlace ==
    /\ built = "ok"
    /\ call = Idle
    /\ \E dtype \in {"int", "float"} :
         /\ call' = [op |-> "make_empty_grid", dtype |-> dtype]
         /\ queries' = <<>>
         /\ result' = [status |-> "ok", value |-> Zeros(Shape(tx))]
    /\ tx' = Zeros(Shape(tx))
    /\ UNCHANGED <<args, built, ty, dx, tpoints, raised>>

MakeEmptyGrid ==
    /\ built = "ok"
    /\ call = Idle
    /\ \E dtype \in {"int", "float"} :
         /\ call' = [op |-> "make_empty_grid", dtype |-> dtype]
         /\ queries' = <<>>
         /\ result' = [status |-> "ok", value |-> Zeros(Shape(tx))]
    /\ UNCHANGED <<args, built, tx, ty, dx, tpoints, raised>>

----------------------------------------------------------------------------
(* Gridder.grid_points *)

\* list(zip(xinds, yinds, strict=True)) of the query's return
PointsResult(q) ==
    IF q.status = "ok" THEN [status |-> "ok", value |-> KdReturn(q.inds)]
    ELSE [status |-> q.status]

GridPoints ==
    /\ built = "ok"
    /\ call = Idle
    /\ \E pts \in SeqsUpTo(QPts, MaxPts), t \in 0..1, scalar \in BOOLEAN :
         LET xs == IF scalar THEN pts[1][1] ELSE Xs(pts)
             ys == IF scalar THEN pts[1][2] ELSE Trim(Ys(pts), t)
         IN /\ scalar => (Len(pts) = 1 /\ t = 0)
            /\ \E q \in KdQuery(xs, ys, scalar) :
                 /\ call' = [op |-> "grid_points", xs |-> xs, ys |-> ys,
                             scalar |-> scalar]
                 /\ queries' = <<q>>
                 /\ result' = PointsResult(q)
    /\ UNCHANGED <<args, built, tx, ty, dx, tpoints, raised>>

\* the caller drops the call's result; the Gridder stays
Return ==
    /\ call # Idle
    /\ call' = Idle
    /\ queries' = <<>>
    /\ result' = [status |-> "none"]
    /\ raised' = (raised \/ result.status # "ok")
    /\ UNCHANGED <<args, built, tx, ty, dx, tpoints>>

----------------------------------------------------------------------------
(* skimage.draw.line, as grid_lines calls it *)

RECURSIVE LineAdvance(_, _, _, _)
\* while d >= 0: r = r + sr; d = d - (2 * dc)
LineAdvance(r, d, sr, dc) ==
    IF d >= 0 THEN LineAdvance(r + sr, d - 2 * dc, sr, dc) ELSE <<r, d>>

RECURSIVE LineWalkUnswapped(_, _, _, _, _, _, _, _, _)
\* LineWalk that writes (r, c) for a steep line too
LineWalkUnswapped(i, r, c, d, steep, sr, sc, dr, dc) ==
    IF i >= dc THEN <<>>
    ELSE LET a == LineAdvance(r, d, sr, dc)
         IN <<<<r, c>>>> \o
            LineWalkUnswapped(i + 1, a[1], c + sc, a[2] + 2 * dr,
                              steep, sr, sc, dr, dc)

RECURSIVE LineWalk(_, _, _, _, _, _, _, _, _)
\* the loop "for i in range(dc)": the cells written at steps i .. dc-1
LineWalk(i, r, c, d, steep, sr, sc, dr, dc) ==
    IF i >= dc THEN <<>>
    ELSE LET cell == IF steep THEN <<c, r>> ELSE <<r, c>>
             a == LineAdvance(r, d, sr, dc)
         IN <<cell>> \o
            LineWalk(i + 1, a[1], c + sc, a[2] + 2 * dr, steep, sr, sc, dr, dc)

\* skdraw.line(r0, c0, r1, c1): the cells of the traced segment, in order
Line(r0, c0, r1, c1) ==
    LET adr == Abs(r1 - r0)
        adc == Abs(c1 - c0)
        sc0 == IF c1 - c0 > 0 THEN 1 ELSE -1
        sr0 == IF r1 - r0 > 0 THEN 1 ELSE -1
        steep == adr > adc
    IN (IF steep
        THEN LineWalk(0, c0, r0, 2 * adc - adr, TRUE, sc0, sr0, adc, adr)
        ELSE LineWalk(0, r0, c0, 2 * adr - adc, FALSE, sr0, sc0, adr, adc))
       \o <<<<r1, c1>>>>

----------------------------------------------------------------------------
(* Gridder.grid_lines *)

\* LinesOf that pairs the k-th start with the k-th end from the back
LinesOfCrossed(s, e) ==
    [k \in 1..Len(s) |->
        Line(s[k][1], s[k][2], e[Len(e) + 1 - k][1], e[Len(e) + 1 - k][2])]

\* [skdraw.line(sx, sy, ex, ey) for ... in zip(..., strict=True)]
LinesOf(s, e) == [k \in 1..Len(s) |-> Line(s[k][1], s[k][2], e[k][1], e[k][2])]

\* what grid_lines gives once both queries ran
LinesResult(q1, q2) ==
    IF q1.status # "ok" THEN [status |-> q1.status]
    ELSE IF q2.status # "ok" THEN [status |-> q2.status]
    ELSE IF ZipStrictFails(KdReturn(q1.inds), KdReturn(q2.inds))
         THEN [status |-> "ValueError"]
    ELSE [status |-> "ok",
          value |-> LinesOf(KdReturn(q1.inds), KdReturn(q2.inds))]

GridLines ==
    /\ built = "ok"
    /\ call = Idle
    /\ \E io \in LineInputs, t \in 0..1, scalar \in BOOLEAN :
         LET starts == io[1]
             ends == io[2]
             sxs == IF scalar THEN starts[1][1] ELSE Xs(starts)
             sys == IF scalar THEN starts[1][2] ELSE Trim(Ys(starts), t)
             exs == IF scalar THEN ends[1][1] ELSE Xs(ends)
             eys == IF scalar THEN ends[1][2] ELSE Ys(ends)
         IN /\ scalar => (Len(starts) = 1 /\ Len(ends) = 1 /\ t = 0)
            /\ \E q1 \in KdQuery(sxs, sys, scalar),
                  q2 \in KdQuery(exs, eys, scalar) :
                 /\ call' = [op |-> "grid_lines", sxs |-> sxs, sys |-> sys,
                             exs |-> exs, eys |-> eys, scalar |-> scalar]
                 /\ queries' = IF q1.status = "ok" THEN <<q1, q2>> ELSE <<q1>>
                 /\ result' = LinesResult(q1, q2)
    /\ UNCHANGED <<args, built, tx, ty, dx, tpoints, raised>>

----------------------------------------------------------------------------
(* skimage.draw.polygon and polygon_perimeter, as grid_polygons calls them *)

Rows(cells) == [k \in 1..Len(cells) |-> cells[k][1]]

Cols(cells) == [k \in 1..Len(cells) |-> cells[k][2]]

SeqMin(seq) == CHOOSE v \in {seq[k] : k \in 1..Len(seq)} :
                   \A k \in 1..Len(seq) : v <= seq[k]

SeqMax(seq) == CHOOSE v \in {seq[k] : k \in 1..Len(seq)} :
                   \A k \in 1..Len(seq) : v >= seq[k]

RECURSIVE PipLoop(_, _, _, _, _, _, _, _, _)
\* the edge loop of point_in_polygon from vertex i on: 0 outside, 1 inside,
\* 2 vertex, 3 edge.  num / (y1 - y0) > 0 is decided by the sign of the
\* product num * (y1 - y0)
PipLoop(xp, yp, x, y, i, x1, y1, rcross, lcross) ==
    IF i > Len(xp)
    THEN IF (rcross % 2) # (lcross % 2) THEN 3
         ELSE IF rcross % 2 = 1 THEN 1 ELSE 0
    ELSE LET x0 == xp[i] - x
             y0 == yp[i] - y
             num == x0 * y1 - x1 * y0
             den == y1 - y0
             rhit == ((y0 > 0) # (y1 > 0)) /\ num * den > 0
             lhit == ((y0 < 0) # (y1 < 0)) /\ num * den < 0
         IN IF x0 = 0 /\ y0 = 0 THEN 2
            ELSE PipLoop(xp, yp, x, y, i + 1, x0, y0,
                         rcross + (IF rhit THEN 1 ELSE 0),
                         lcross + (IF lhit THEN 1 ELSE 0))

\* point_in_polygon(xp, yp, x, y)
PointInPolygon(xp, yp, x, y) ==
    PipLoop(xp, yp, x, y, 1, xp[Len(xp)] - x, yp[Len(yp)] - y, 0, 0)

\* skdraw.polygon(r, c) on at least one vertex: the cells of the bounding
\* box, row by row, that point_in_polygon does not put outside
Polygon(r, c) ==
    LET minr == Max(0, SeqMin(r))
        maxr == SeqMax(r)
        minc == Max(0, SeqMin(c))
        maxc == SeqMax(c)
        w == maxc - minc + 1
        box == [k \in 1..((maxr - minr + 1) * w) |->
                  <<minr + ((k - 1) \div w), minc + ((k - 1) % w)>>]
    IN SelectSeq(box, LAMBDA p : PointInPolygon(c, r, p[2], p[1]) # 0)

RECURSIVE PerimeterFrom(_, _, _)
\* the line segments of polygon_perimeter from vertex i of a closed vertex
\* list on: line(r[i], c[i], r[i + 1], c[i + 1]) for i in range(len(r) - 1)
PerimeterFrom(r, c, i) ==
    IF i >= Len(r) THEN <<>>
    ELSE Line(r[i], c[i], r[i + 1], c[i + 1]) \o PerimeterFrom(r, c, i + 1)

\* the vertex list closed: the first vertex again at the end unless the
\* list ends with it
Closed(v) == IF v[1] = v[Len(v)] THEN v ELSE Append(v, v[1])

\* skdraw.polygon_perimeter(r, c) on at least three vertices
PolygonPerimeter(r, c) ==
    LET v == Closed(Zip(r, c))
    IN PerimeterFrom(Rows(v), Cols(v), 1)

\* the exception the drawing routine raises on these vertices, "ok" when
\* none: both take the minimum of the vertex array, a ValueError when it is
\* empty; the perimeter closes the polygon through a clipper that gives no
\* polygon for fewer than three vertices
DrawStatus(cells, fill) ==
    IF Len(cells) = 0 THEN "ValueError"
    ELSE IF ~fill /\ Len(cells) < 3 THEN "IndexError"
    ELSE "ok"

\* skdraw.polygon(_x, _y) or skdraw.polygon_perimeter(_x, _y)
Draw(cells, fill) ==
    IF fill THEN Polygon(Rows(cells), Cols(cells))
    ELSE PolygonPerimeter(Rows(cells), Cols(cells))

----------------------------------------------------------------------------
(* Gridder.grid_polygons *)

RECURSIVE FirstBad(_, _)
\* index of the first query from k on that raised, 0 when none did
FirstBad(qs, k) ==
    IF k > Len(qs) THEN 0
    ELSE IF qs[k].status # "ok" THEN k ELSE FirstBad(qs, k + 1)

RECURSIVE PolysFrom(_, _, _)
\* the loop over the snapped polygons from k on: polys.append(...), with
\* "except ValueError: continue"; any other exception ends the call
PolysFrom(qs, fill, k) ==
    IF k > Len(qs) THEN [status |-> "ok", value |-> <<>>]
    ELSE LET cells == KdReturn(qs[k].inds)
             st == DrawStatus(cells, fill)
             rest == PolysFrom(qs, fill, k + 1)
         IN IF st = "ValueError" THEN rest
            ELSE IF st # "ok" THEN [status |-> st]
            ELSE IF rest.status # "ok" THEN rest
            ELSE [status |-> "ok", value |-> <<Draw(cells, fill)>> \o rest.value]

\* what grid_polygons gives: trimmed says that zip(xs, ys, strict=True)
\* found xs and ys of different lengths after the pairs it could form
PolygonsResult(qs, fill, trimmed) ==
    IF FirstBad(qs, 1) # 0 THEN [status |-> qs[FirstBad(qs, 1)].status]
    ELSE IF trimmed THEN [status |-> "ValueError"]
    ELSE PolysFrom(qs, fill, 1)

GridPolygons ==
    /\ built = "ok"
    /\ call = Idle
    /\ \E io \in PolygonInputs, fill \in BOOLEAN :
         LET polys == io[1]
             xs == [k \in 1..Len(polys) |-> Xs(polys[k])]
             ys == Trim([k \in 1..Len(polys) |-> Ys(polys[k])], io[2])
         IN \E qs \in Product([k \in 1..Len(ys) |->
                                 KdQuery(xs[k], ys[k], FALSE)]) :
              /\ call' = [op |-> "grid_polygons", xs |-> xs, ys |-> ys,
                          fill |-> fill]
              /\ queries' = IF FirstBad(qs, 1) # 0
                            THEN SubSeq(qs, 1, FirstBad(qs, 1)) ELSE qs
              /\ result' = PolygonsResult(qs, fill, ZipStrictFails(xs, ys))
    /\ UNCHANGED <<args, built, tx, ty, dx, tpoints, raised>>

----------------------------------------------------------------------------
(* Specifications *)

\* every constructor call on meshgrid-like arrays, shapes of tx and ty free
InitCtor ==
    \E gx \in XGrids, gy \in YGrids, d \in DxValues, c \in BOOLEAN :
        Constructed([tx |-> gx, ty |-> gy, dx |-> d, centered |-> c])

NextCtor == MakeEmptyGrid \/ Return

SpecCtor == InitCtor /\ [][NextCtor]_vars

\* axis of n coordinates from 0 with the one gap g
UniformAxis(n, g) == [k \in 1..n |-> (k - 1) * g]

OpsDims == {<<MaxRows, MaxCols>>}

\* Gridders over np.meshgrid grids of spacing 4 (two units)
Init ==
    \E d \in OpsDims, b \in DxValues, c \in BOOLEAN :
        Constructed([tx |-> GridX(UniformAxis(d[2], 4), d[1]),
                     ty |-> GridY(UniformAxis(d[1], 4), d[2]),
                     dx |-> b, centered |-> c])

NextPoints == GridPoints \/ Return

SpecPoints == Init /\ [][NextPoints]_vars

NextLines == GridLines \/ Return

SpecLines == Init /\ [][NextLines]_vars

NextPolys == GridPolygons \/ Return

SpecPolys == Init /\ [][NextPolys]_vars

Next == GridPoints \/ GridLines \/ GridPolygons \/ MakeEmptyGrid \/ Return

Spec == Init /\ [][Next]_vars

----------------------------------------------------------------------------
(* Properties of the constructor, checked under SpecCtor *)

\* the x gap between neighbouring columns and the y gap between
\* neighbouring rows are d everywhere
UniformSpacing(gx, gy, d) ==
    /\ \A i \in 1..NRows(gx), j \in 1..(NCols(gx) - 1) :
           gx[i][j + 1] - gx[i][j] = d
    /\ \A i \in 1..(NRows(gy) - 1), j \in 1..NCols(gy) :
           gy[i + 1][j] - gy[i][j] = d

\* the gaps an input grid of this model can have
Spacings == GapSet

\* C3: constructing a Gridder from tx and ty of different 2-D shapes fails
\* with an error, so no Gridder exists whose arrays differ in shape.
C3_ShapeMismatchRaises ==
    Shape(args.tx) # Shape(args.ty) => built # "ok"

\* C5: for a corner-referenced grid (centered=False) of uniform spacing d,
\* every stored coordinate, last row and column included, is its input
\* plus d/2 (twice the shift is d), and the stored grid has spacing d again;
\* with centered=True the stored grid is the input.
C5_CenteringTransform ==
    built = "ok" =>
        /\ args.centered => (tx = args.tx /\ ty = args.ty)
        /\ ~args.centered =>
             \A d \in Spacings :
                UniformSpacing(args.tx, args.ty, d) =>
                   /\ \A i \in 1..NRows(tx), j \in 1..NCols(tx) :
                          2 * (tx[i][j] - args.tx[i][j]) = d
                   /\ \A i \in 1..NRows(ty), j \in 1..NCols(ty) :
                          2 * (ty[i][j] - args.ty[i][j]) = d
                   /\ UniformSpacing(tx, ty, d)

\* a corner-referenced uniform grid of three rows and four columns was built
C5_Witness ==
    /\ built = "ok"
    /\ ~args.centered
    /\ UniformSpacing(args.tx, args.ty, 4)
    /\ Shape(args.tx) = <<3, 4>>
    /\ Shape(args.ty) = <<3, 4>>
    /\ tx[3][4] = 14
    /\ ty[3][4] = 10

----------------------------------------------------------------------------
(* Properties of the queries *)

\* the points a grid_points call hands over, read off its arguments
CallPts ==
    IF call.scalar THEN <<<<call.xs, call.ys>>>>
    ELSE [k \in 1..Len(call.xs) |-> <<call.xs[k], call.ys[k]>>]

\* centre of a cell (row, col) in the stored grid
CellCentre(cell) == <<tx[cell[1] + 1][cell[2] + 1], ty[cell[1] + 1][cell[2] + 1]>>

InGrid(cell) ==
    /\ cell[1] \in 0..(NRows(tx) - 1)
    /\ cell[2] \in 0..(NCols(tx) - 1)

\* squared distance from p to the nearest cell centre of the stored grid
Nearest2(p) ==
    LET ds == {Dist2(p, <<tx[i][j], ty[i][j]>>) :
                  i \in 1..NRows(tx), j \in 1..NCols(tx)}
    IN CHOOSE d \in ds : \A e \in ds : d <= e

\* nearest centre closer than dx
Below(p) == dx = Inf \/ Nearest2(p) < dx * dx

\* nearest centre not farther than dx
Within(p) == dx = Inf \/ Nearest2(p) <= dx * dx

\* a grid_points call returned: the points with Reach are in the result, each
\* as the cell of a nearest centre, in order, and no other point is
Snapped(Reach(_)) ==
    (call.op = "grid_points" /\ result.status = "ok") =>
        LET P == CallPts
            Rank(i) == Cardinality({j \in 1..i : Reach(P[j])})
        IN /\ Len(result.value) = Rank(Len(P))
           /\ \A i \in 1..Len(P) :
                 Reach(P[i]) =>
                    /\ InGrid(result.value[Rank(i)])
                    /\ Dist2(P[i], CellCentre(result.value[Rank(i)]))
                          = Nearest2(P[i])

\* C1 as stated: a point farther than dx from every cell centre is excluded;
\* a point whose nearest centre is within dx, the distance dx included, is
\* in the result as the cell of that centre.
C1_ThresholdInclusive == Snapped(Within)

\* C1 amended: a point is in the result, as the cell of a nearest centre,
\* exactly when its nearest centre is closer than dx; at distance dx or
\* more it is excluded.
C1_ThresholdStrict == Snapped(Below)

\* one call with a point at distance exactly dx and a point closer than dx
C1_Witness ==
    /\ call.op = "grid_points"
    /\ result.status = "ok"
    /\ dx # Inf
    /\ \E i, j \in 1..Len(CallPts) :
          /\ Nearest2(CallPts[i]) = dx * dx
          /\ Nearest2(CallPts[j]) < dx * dx
    /\ Len(result.value) = 1

RECURSIVE PositionsFrom(_, _, _)
\* the positions i, i+1, ... of inds that hold an index below n, ascending
PositionsFrom(inds, n, i) ==
    IF i > Len(inds) THEN <<>>
    ELSE (IF inds[i] < n THEN <<i>> ELSE <<>>) \o PositionsFrom(inds, n, i + 1)

\* positions of the points of query q that matched
Matched(q) == PositionsFrom(q.inds, Len(tpoints), 1)

\* C2: grid_points with len(xs) = len(ys) returns one cell per matched input
\* point and none for an unmatched one, in input order, repeats kept; a
\* scalar pair is a batch of one point.
C2_MatchedInOrder ==
    (call.op = "grid_points" /\ result.status = "ok") =>
        LET q == queries[1]
        IN /\ q.points = CallPts
           /\ Len(q.inds) = Len(CallPts)
           /\ call.scalar => Len(q.points) = 1
           /\ Len(result.value) = Len(Matched(q))
           /\ \A k \in 1..Len(result.value) :
                 /\ InGrid(result.value[k])
                 /\ CellCentre(result.value[k])
                       = tpoints[q.inds[Matched(q)[k]] + 1]
                 /\ Dist2(CallPts[Matched(q)[k]], CellCentre(result.value[k]))
                       = Nearest2(CallPts[Matched(q)[k]])

\* two points, the first dropped, the second kept
C2_Witness ==
    /\ call.op = "grid_points"
    /\ result.status = "ok"
    /\ Len(CallPts) = 2
    /\ Matched(queries[1]) = <<2>>
    /\ Len(result.value) = 1

----------------------------------------------------------------------------
(* Properties of grid_lines *)

\* the snapped start cells and end cells of a grid_lines call that returned
StartCells == KdReturn(queries[1].inds)

EndCells == KdReturn(queries[2].inds)

\* a traced line runs from cell s to cell e in steps of at most one row and
\* one column, and is the one cell when s = e
RunsBetween(ln, s, e) ==
    /\ Len(ln) >= 1
    /\ ln[1] = s
    /\ ln[Len(ln)] = e
    /\ \A m \in 1..(Len(ln) - 1) :
          /\ Abs(ln[m + 1][1] - ln[m][1]) <= 1
          /\ Abs(ln[m + 1][2] - ln[m][2]) <= 1
    /\ s = e => ln = <<s>>

\* C7: the line grid_lines traces between two snapped cells starts with the
\* start cell, ends with the end cell, moves at most one row and one column
\* per step, and is the single cell when the two cells are the same.
C7_LineEndpoints ==
    (call.op = "grid_lines" /\ result.status = "ok") =>
        \A k \in 1..Len(result.value) :
            /\ InGrid(StartCells[k])
            /\ InGrid(EndCells[k])
            /\ RunsBetween(result.value[k], StartCells[k], EndCells[k])

\* a steep line was traced, from cell (0, 3) to cell (2, 2)
C7_Witness ==
    /\ call.op = "grid_lines"
    /\ result.status = "ok"
    /\ Len(result.value) = 1
    /\ StartCells[1] = <<0, 3>>
    /\ EndCells[1] = <<2, 2>>
    /\ Len(result.value[1]) = 3

\* the cell that index ind of the flattened grid stands for
CellOf(ind) == <<ind \div NCols(tx), ind % NCols(tx)>>

\* C9: grid_lines filters the start batch and the end batch each on its own
\* and the k-th returned line is the trace from the k-th matched start cell
\* to the k-th matched end cell, one line per pair; when every start and end
\* point matched, there is one line per input line, in input order, from
\* that line's snapped start to its snapped end.
C9_PairedByPosition ==
    (call.op = "grid_lines" /\ result.status = "ok") =>
        LET qs == queries[1]
            qe == queries[2]
            S(k) == CellOf(qs.inds[Matched(qs)[k]])
            E(k) == CellOf(qe.inds[Matched(qe)[k]])
        IN /\ Len(result.value) = Len(Matched(qs))
           /\ Len(result.value) = Len(Matched(qe))
           /\ \A k \in 1..Len(result.value) :
                 result.value[k] = Line(S(k)[1], S(k)[2], E(k)[1], E(k)[2])
           /\ (Len(Matched(qs)) = Len(qs.inds) /\ Len(Matched(qe)) = Len(qe.inds)) =>
                 /\ Len(result.value) = Len(qs.points)
                 /\ \A k \in 1..Len(result.value) :
                       /\ result.value[k][1] = CellOf(qs.inds[k])
                       /\ result.value[k][Len(result.value[k])] = CellOf(qe.inds[k])
                       /\ Dist2(qs.points[k], CellCentre(CellOf(qs.inds[k])))
                             = Nearest2(qs.points[k])
                       /\ Dist2(qe.points[k], CellCentre(CellOf(qe.inds[k])))
                             = Nearest2(qe.points[k])

\* two lines went in, the first start and the second end did not snap, and
\* the one line returned joins the second start to the first end
C9_Witness ==
    /\ call.op = "grid_lines"
    /\ result.status = "ok"
    /\ Len(queries[1].inds) = 2
    /\ Matched(queries[1]) = <<2>>
    /\ Matched(queries[2]) = <<1>>
    /\ Len(result.value) = 1
    /\ StartCells[1] # EndCells[1]

\* number of entries of a batch argument, one for a scalar
BatchLen(v) == IF call.scalar THEN 1 ELSE Len(v)

\* the parallel sequences of the call have equal, positive lengths
ParallelInputs ==
    CASE call.op = "grid_points" ->
            BatchLen(call.xs) = BatchLen(call.ys) /\ BatchLen(call.xs) > 0
      [] call.op = "grid_lines" ->
            /\ BatchLen(call.sxs) = BatchLen(call.sys)
            /\ BatchLen(call.exs) = BatchLen(call.eys)
            /\ BatchLen(call.sxs) = BatchLen(call.exs)
            /\ BatchLen(call.sxs) > 0
      [] call.op = "grid_polygons" ->
            /\ Len(call.xs) = Len(call.ys)
            /\ \A k \in 1..Len(call.xs) :
                  Len(call.xs[k]) = Len(call.ys[k]) /\ Len(call.xs[k]) > 0
      [] OTHER -> FALSE

\* C4: a call of grid_points, grid_lines or grid_polygons on parallel
\* sequences of equal length returns a result and raises nothing, whichever
\* of its points fail to snap.
C4_NoSnapNoError == ParallelInputs => result.status = "ok"

----------------------------------------------------------------------------
(* Properties of grid_polygons *)

\* the snapped vertices of the k-th polygon of the call
Snap(k) == KdReturn(queries[k].inds)

\* every polygon of the call reached its query and the drawing loop
AllQueried ==
    /\ Len(queries) = Len(call.xs)
    /\ \A k \in 1..Len(queries) : queries[k].status = "ok"

\* C6: a polygon with 0, 1 or 2 vertices left after snapping is skipped in
\* both fill modes: no error is raised and the returned list has entries
\* only for the polygons with at least 3 snapped vertices.
C6_DegenerateSkipped ==
    (call.op = "grid_polygons" /\ ParallelInputs) =>
        /\ result.status = "ok"
        /\ Len(result.value)
              <= Cardinality({k \in 1..Len(queries) : Len(Snap(k)) >= 3})

Orient(a, b, c) == (b[1] - a[1]) * (c[2] - a[2]) - (b[2] - a[2]) * (c[1] - a[1])

\* c lies in the bounding box of a and b
InBox(a, b, c) ==
    /\ Min(a[1], b[1]) <= c[1] /\ c[1] <= Max(a[1], b[1])
    /\ Min(a[2], b[2]) <= c[2] /\ c[2] <= Max(a[2], b[2])

\* the segments ab and cd have a common point
Meet(a, b, c, d) ==
    \/ Orient(a, b, c) * Orient(a, b, d) < 0 /\ Orient(c, d, a) * Orient(c, d, b) < 0
    \/ Orient(a, b, c) = 0 /\ InBox(a, b, c)
    \/ Orient(a, b, d) = 0 /\ InBox(a, b, d)
    \/ Orient(c, d, a) = 0 /\ InBox(c, d, a)
    \/ Orient(c, d, b) = 0 /\ InBox(c, d, b)

\* the closed polygon through the vertices v is simple: at least 3 distinct
\* vertices, neighbouring edges meet only in their common vertex, other
\* edges do not meet
IsSimple(v) ==
    LET n == Len(v)
        Nxt(i) == IF i = n THEN 1 ELSE i + 1
    IN /\ n >= 3
       /\ \A i, j \in 1..n : i # j => v[i] # v[j]
       /\ \A i, j \in 1..n :
             i < j =>
                IF Nxt(i) = j
                THEN ~(Orient(v[i], v[j], v[Nxt(j)]) = 0
                       /\ (InBox(v[i], v[j], v[Nxt(j)]) \/ InBox(v[j], v[Nxt(j)], v[i])))
                ELSE IF Nxt(j) = i
                THEN ~(Orient(v[j], v[i], v[Nxt(i)]) = 0
                       /\ (InBox(v[j], v[i], v[Nxt(i)]) \/ InBox(v[i], v[Nxt(i)], v[j])))
                ELSE ~Meet(v[i], v[Nxt(i)], v[j], v[Nxt(j)])

ToSet(seq) == {seq[k] : k \in 1..Len(seq)}

\* C8: for a simple polygon whose vertices all snap, the cells grid_polygons
\* returns with fill=False (the traces between consecutive snapped vertices,
\* closed from the last to the first) are all among the cells it returns
\* with fill=True.
C8_FillCoversPerimeter ==
    (/\ call.op = "grid_polygons"
     /\ ~call.fill
     /\ result.status = "ok"
     /\ AllQueried
     /\ \A k \in 1..Len(queries) :
           Len(Snap(k)) = Len(queries[k].inds) /\ IsSimple(Snap(k))) =>
        /\ Len(result.value) = Len(queries)
        /\ \A k \in 1..Len(queries) :
              ToSet(result.value[k]) \subseteq ToSet(Polygon(Rows(Snap(k)), Cols(Snap(k))))

----------------------------------------------------------------------------
(* Statelessness *)

\* the Gridder is as the constructor made it from its arguments
AsConstructed ==
    /\ built = "ok"
    /\ tx = StoredTx(args)
    /\ ty = StoredTy(args)
    /\ dx = args.dx
    /\ tpoints = Zip(Ravel(StoredTx(args)), Ravel(StoredTy(args)))

\* make_empty_grid gave zeros in the shape of the constructor's grid
EmptyGridFresh ==
    call.op = "make_empty_grid" =>
        /\ result.status = "ok"
        /\ Shape(result.value) = Shape(StoredTx(args))
        /\ \A i \in 1..NRows(result.value), j \in 1..NCols(result.value) :
              result.value[i][j] = 0

\* C10: no call of grid_points, grid_lines, grid_polygons or make_empty_grid,
\* failing ones included, changes the stored grid, dx or the indexed points;
\* each call is answered from the constructor's state alone, and
\* make_empty_grid gives a zero array of the grid's shape.
C10_Stateless ==
    [][self' = self /\ args' = args /\ built' = built /\ EmptyGridFresh']_vars

\* an earlier call raised, and a grid_points call that drops one of its
\* two points is answered from the Gridder as constructed
C10_Witness ==
    /\ raised
    /\ call.op = "grid_points"
    /\ result.status = "ok"
    /\ Len(result.value) = 1
    /\ Len(CallPts) = 2
    /\ AsConstructed

=============================================================================
